---- MODULE Spec2Model ----
(***************************************************************************)
(* Model of src/logic.py: a Flask service that extracts the text of an     *)
(* uploaded pdf/docx/pptx file, sends it to a text-generation service and  *)
(* re-renders the reply as a bullet summary or as question/answer blocks.  *)
(*                                                                         *)
(* A Python str is modelled as a sequence of one-character strings.  The   *)
(* character U+2022 (the bullet glyph) is written "u2022" and stands for   *)
(* one character.  None is modelled by a record with a presence flag, so   *)
(* that every variable keeps one shape.                                    *)
(***************************************************************************)
EXTENDS Integers, Sequences, FiniteSets, TLC

VARIABLES pc, req, text, branch, bytesRead, prompt, response, formatted,
          result, http, steps, genCalls, seen

vars == <<pc, req, text, branch, bytesRead, prompt, response, formatted,
          result, http, steps, genCalls, seen>>

(***************************************************************************)
(* Bounds of the model.                                                    *)
(***************************************************************************)
\* raw summary replies are built from at most MaxPieces pieces
MaxPieces == 4
\* raw Q/A replies are built from at most MaxLines lines
MaxLines == 4
\* a document holds at most MaxUnits pages / paragraphs / shapes
MaxUnits == 2
\* a file name is a stem of at most MaxStem characters plus an ending
MaxStem == 1

(***************************************************************************)
(* Python str primitives.                                                  *)
(***************************************************************************)
BULLET == "u2022"
NL == "\n"
Whitespace == {" ", NL}

RECURSIVE Concat(_)
\* ''.join(seq)
Concat(ss) == IF ss = <<>> THEN <<>> ELSE Head(ss) \o Concat(Tail(ss))

RECURSIVE JoinWith(_, _)
\* sep.join(seq)
JoinWith(sep, ss) ==
    IF ss = <<>> THEN <<>>
    ELSE IF Len(ss) = 1 THEN Head(ss)
    ELSE Head(ss) \o sep \o JoinWith(sep, Tail(ss))

Drop(s, n) == SubSeq(s, n + 1, Len(s))

\* s.startswith(p)
StartsWith(s, p) == Len(p) <= Len(s) /\ SubSeq(s, 1, Len(p)) = p

\* s.endswith(p)
EndsWith(s, p) == Len(p) <= Len(s) /\ SubSeq(s, Len(s) - Len(p) + 1, Len(s)) = p

RECURSIVE LStripChars(_, _)
\* s.lstrip(chars): drop the maximal leading run of characters of the set
LStripChars(s, chars) ==
    IF s # <<>> /\ Head(s) \in chars THEN LStripChars(Tail(s), chars) ELSE s

RECURSIVE RStripChars(_, _)
RStripChars(s, chars) ==
    IF s # <<>> /\ s[Len(s)] \in chars
    THEN RStripChars(SubSeq(s, 1, Len(s) - 1), chars) ELSE s

\* s.strip(): whitespace removed at both ends
Strip(s) == RStripChars(LStripChars(s, Whitespace), Whitespace)

RECURSIVE SplitAcc(_, _, _)
SplitAcc(s, sep, cur) ==
    IF s = <<>> THEN <<cur>>
    ELSE IF StartsWith(s, sep)
         THEN <<cur>> \o SplitAcc(Drop(s, Len(sep)), sep, <<>>)
         ELSE SplitAcc(Tail(s), sep, Append(cur, Head(s)))

\* s.split(sep): left to right, non-overlapping; always at least one part
Split(s, sep) == SplitAcc(s, sep, <<>>)

(***************************************************************************)
(* Literals of the source.                                                 *)
(***************************************************************************)
StrongOpen == <<"<", "s", "t", "r", "o", "n", "g", ">">>
StrongClose == <<"<", "/", "s", "t", "r", "o", "n", "g", ">">>
Br == <<"<", "b", "r", ">">>
BrBr == Br \o Br
EmphasisMarker == <<"*", "*">>
BulletGlyphs == {BULLET, "*", "-"}
BulletPrefix == <<BULLET, " ">>
QuestionTok == <<"Q", "u", "e", "s", "t", "i", "o", "n", ":">>
AnswerTok == <<"A", "n", "s", "w", "e", "r", ":">>
SummaryFailed == <<"S", "u", "m", "m", "a", "r", "y", " ", "g", "e", "n", "e", "r", "a", "t", "i", "o", "n", " ", "f", "a", "i", "l", "e", "d", ".">>
ResponseFailed == <<"R", "e", "s", "p", "o", "n", "s", "e", " ", "g", "e", "n", "e", "r", "a", "t", "i", "o", "n", " ", "f", "a", "i", "l", "e", "d", ".">>
UnboundLocalError == <<"U", "n", "b", "o", "u", "n", "d", "L", "o", "c", "a", "l", "E", "r", "r", "o", "r">>

NoResponse == [present |-> FALSE, text |-> <<>>]
Reply(s) == [present |-> TRUE, text |-> s]

(***************************************************************************)
(* generate_summary: the formatting of the reply.                          *)
(***************************************************************************)
\* the leading glyphs left in place
BulletContent_NoLStrip(line) == Strip(line)

\* line.lstrip(<bullet glyphs>).strip(), applied to an already trimmed line
BulletContent(line) == Strip(LStripChars(line, BulletGlyphs))

RECURSIVE FormatParts_Flipped(_, _)
\* the parity test inverted: the even-indexed segments are wrapped
FormatParts_Flipped(parts, i) ==
    IF parts = <<>> THEN <<>>
    ELSE (IF i % 2 = 0 THEN StrongOpen \o Head(parts) \o StrongClose
          ELSE Head(parts))
         \o FormatParts_Flipped(Tail(parts), i + 1)

RECURSIVE FormatParts(_, _)
\* the enumerate loop over parts: i is the index of Head(parts)
FormatParts(parts, i) ==
    IF parts = <<>> THEN <<>>
    ELSE (IF i % 2 = 1 THEN StrongOpen \o Head(parts) \o StrongClose
          ELSE Head(parts))
         \o FormatParts(Tail(parts), i + 1)

\* the body of "if line:" for one trimmed, non-empty line
FormatSummaryLine(line) ==
    BulletPrefix \o FormatParts(Split(BulletContent(line), EmphasisMarker), 0) \o BrBr

\* the blank-line test left out
KeepLine_Always(line) == TRUE

\* "if line:" after line.strip()
KeepLine(line) == line # <<>>

RECURSIVE SummaryLoop(_)
\* the for loop: formatted_lines for the given lines
SummaryLoop(lines) ==
    IF lines = <<>> THEN <<>>
    ELSE LET line == Strip(Head(lines))
         IN (IF KeepLine(line) THEN <<FormatSummaryLine(line)>> ELSE <<>>)
            \o SummaryLoop(Tail(lines))

\* formatted_lines as built under "if response:"
SummaryFormattedLines(resp) == SummaryLoop(Split(Strip(resp.text), <<NL>>))

\* generate_summary after the service call.  formatted_lines is assigned
\* only under "if response:", and the join that follows is outside it: with
\* no response the join reads an unassigned local and raises.
generate_summary(resp) ==
    IF resp.present
    THEN [kind |-> "return", lines |-> SummaryFormattedLines(resp),
          value |-> Concat(SummaryFormattedLines(resp))]
    ELSE [kind |-> "raise", lines |-> <<>>, value |-> UnboundLocalError]

(***************************************************************************)
(* Inputs of the summary formatter.                                        *)
(***************************************************************************)
SummaryPieces == {<<"*", "*">>, <<"*">>, <<BULLET>>, <<"-">>, <<" ">>, <<NL>>, <<"a">>}

RECURSIVE PieceStrings(_, _)
PieceStrings(pieces, n) ==
    IF n = 0 THEN {<<>>}
    ELSE LET S == PieceStrings(pieces, n - 1)
         IN S \cup {s \o p : s \in S, p \in pieces}

SummaryExamples ==
    { <<"a", " ", "*", "*", "b", "*", "*", " ", "c">>,
      <<BULLET, " ", "a", NL, BULLET, " ", "b", NL, BULLET, " ", "c">>,
      <<"a", "*", "*", "b", "*", "*", "c", "*", "*", "d">> }

SummaryReplies == PieceStrings(SummaryPieces, MaxPieces) \cup SummaryExamples

Idle == [status |-> 0, key |-> "none", body |-> <<>>]
NoReq == [endpoint |-> "none", hasFile |-> FALSE, filename |-> <<>>,
          doc |-> <<>>, summary_type |-> "small"]
NoText == [some |-> FALSE, s |-> <<>>]
NoPrompt == [task |-> "none", template |-> "none", text |-> <<>>]
NoResult == [kind |-> "none", lines |-> <<>>, value |-> <<>>]

InitSummary ==
    /\ pc = "reply"
    /\ response \in {Reply(s) : s \in SummaryReplies}
    /\ req = NoReq /\ text = NoText /\ branch = "none" /\ bytesRead = FALSE
    /\ prompt = NoPrompt
    /\ formatted = <<>> /\ result = NoResult /\ http = Idle
    /\ steps = <<>> /\ genCalls = 0 /\ seen = {}

\* the formatting half of generate_summary applied to the reply
SummaryFormat ==
    /\ pc = "reply"
    /\ result' = generate_summary(response)
    /\ formatted' = result'.lines
    /\ pc' = "done"
    /\ UNCHANGED <<req, text, branch, bytesRead, prompt, response, http, steps, genCalls, seen>>

NextSummary == SummaryFormat

SpecSummary == InitSummary /\ [][NextSummary]_vars

(***************************************************************************)
(* generate_qa: the formatting of the reply.                               *)
(***************************************************************************)
\* f"<br><strong>{line}</strong>"
Emphasised(line) == Br \o StrongOpen \o line \o StrongClose

\* formatted_text.append("".join(current_block) + "<br><br>")
CloseBlock(st) ==
    [formatted_text |-> Append(st.formatted_text, Concat(st.current_block) \o BrBr),
     current_block |-> <<>>]

\* the open block is not closed when the next question starts
QuestionBranch_NoClose(st, line) ==
    [st EXCEPT !.current_block = Append(@, Emphasised(line))]

\* the branch of the loop body taken for a line that starts with "Question:"
QuestionBranch(st, line) ==
    LET closed == IF st.current_block # <<>> THEN CloseBlock(st) ELSE st
    IN [closed EXCEPT !.current_block = Append(@, Emphasised(line))]

\* one iteration of the for loop; raw is the line before line.strip()
QAStep(st, raw) ==
    LET line == Strip(raw)
    IN IF StartsWith(line, QuestionTok) THEN QuestionBranch(st, line)
       ELSE IF StartsWith(line, AnswerTok)
            THEN [st EXCEPT !.current_block = Append(@, Emphasised(line))]
            ELSE [st EXCEPT !.current_block = Append(@, line)]

RECURSIVE QALoop(_, _)
QALoop(st, lines) ==
    IF lines = <<>> THEN st ELSE QALoop(QAStep(st, Head(lines)), Tail(lines))

\* the block open at the end of the input is not emitted
QAFinish_Drop(st) == st

\* "Add the last block if present"
QAFinish(st) == IF st.current_block # <<>> THEN CloseBlock(st) ELSE st

\* formatted_text as built under "if response:"
QAFormattedText(resp) ==
    QAFinish(QALoop([formatted_text |-> <<>>, current_block |-> <<>>],
                    Split(Strip(resp.text), <<NL>>))).formatted_text

\* generate_qa after the service call
generate_qa(resp) ==
    IF resp.present
    THEN [kind |-> "return", lines |-> QAFormattedText(resp),
          value |-> Strip(Concat(QAFormattedText(resp)))]
    ELSE [kind |-> "return", lines |-> <<>>, value |-> ResponseFailed]

(***************************************************************************)
(* Inputs of the Q/A formatter: replies of at most MaxLines lines.         *)
(***************************************************************************)
QALineTemplates ==
    { QuestionTok \o <<"a">>, <<" ">> \o QuestionTok, AnswerTok \o <<"a">>,
      <<"a">>, <<>>, <<"Q">>, <<"a">> \o QuestionTok }

RECURSIVE LineSeqs(_, _)
\* the non-empty sequences of at most n lines
LineSeqs(lines, n) ==
    IF n <= 1 THEN {<<l>> : l \in lines}
    ELSE LET S == LineSeqs(lines, n - 1)
         IN S \cup {Append(s, l) : s \in S, l \in lines}

QAReplies == {JoinWith(<<NL>>, ls) : ls \in LineSeqs(QALineTemplates, MaxLines)}

InitQA ==
    /\ pc = "reply"
    /\ response \in {Reply(s) : s \in QAReplies}
    /\ req = NoReq /\ text = NoText /\ branch = "none" /\ bytesRead = FALSE
    /\ prompt = NoPrompt
    /\ formatted = <<>> /\ result = NoResult /\ http = Idle
    /\ steps = <<>> /\ genCalls = 0 /\ seen = {}

\* the formatting half of generate_qa applied to the reply
QAFormat ==
    /\ pc = "reply"
    /\ result' = generate_qa(response)
    /\ formatted' = result'.lines
    /\ pc' = "done"
    /\ UNCHANGED <<req, text, branch, bytesRead, prompt, response, http, steps, genCalls, seen>>

NextQA == QAFormat

SpecQA == InitQA /\ [][NextQA]_vars

(***************************************************************************)
(* extract_text.                                                           *)
(***************************************************************************)
\* str.lower() on the letters that occur in the modelled file names
LowerChar(c) ==
    CASE c = "P" -> "p" [] c = "D" -> "d" [] c = "F" -> "f" [] c = "O" -> "o"
      [] c = "C" -> "c" [] c = "X" -> "x" [] c = "T" -> "t" [] OTHER -> c

\* the file name matched as typed
Lower_Identity(s) == s

Lower(s) == [i \in 1..Len(s) |-> LowerChar(s[i])]

ExtPdf == <<".", "p", "d", "f">>
ExtDocx == <<".", "d", "o", "c", "x">>
ExtPptx == <<".", "p", "p", "t", "x">>

\* the branch of the if / elif chain taken for file.filename
FormatBranch(name) ==
    LET filename == Lower(name)
    IN IF EndsWith(filename, ExtPdf) THEN "pdf"
       ELSE IF EndsWith(filename, ExtDocx) THEN "docx"
       ELSE IF EndsWith(filename, ExtPptx) THEN "pptx"
       ELSE "none"

\* A document is the sequence of its content units (pages, paragraphs,
\* shapes): [hasText, t].  Only a shape can lack the text attribute.
UnitTexts(doc) == [i \in 1..Len(doc) |-> doc[i].t]

\* text += page.get_text() for each page
PdfText(doc) == Concat(UnitTexts(doc))

\* "\n".join(para.text for para in doc.paragraphs)
DocxText(doc) == JoinWith(<<NL>>, UnitTexts(doc))

\* the shapes that pass hasattr(shape, "text")
TextShapes(doc) == SelectSeq(doc, LAMBDA u : u.hasText)

PptxText(doc) == JoinWith(<<NL>>, UnitTexts(TextShapes(doc)))

\* extract_text(file): the returned value, the branch taken and whether the
\* upload's bytes were read
extract_text(name, doc) ==
    LET b == FormatBranch(name)
    IN CASE b = "pdf" -> [some |-> TRUE, s |-> PdfText(doc), branch |-> b, read |-> TRUE]
         [] b = "docx" -> [some |-> TRUE, s |-> DocxText(doc), branch |-> b, read |-> TRUE]
         [] b = "pptx" -> [some |-> TRUE, s |-> PptxText(doc), branch |-> b, read |-> TRUE]
         [] OTHER -> [some |-> FALSE, s |-> <<>>, branch |-> "none", read |-> FALSE]

(***************************************************************************)
(* The prompt templates.                                                   *)
(***************************************************************************)
\* the if / elif / else over summary_type (level): anything else is "large"
Template(summary_type) ==
    IF summary_type = "small" THEN "small"
    ELSE IF summary_type = "medium" THEN "medium"
    ELSE "large"

\* the f-string: the instruction of the template followed by {text}
BuildPrompt(task, summary_type, t) ==
    [task |-> task, template |-> Template(summary_type), text |-> t]

(***************************************************************************)
(* The two request handlers.                                               *)
(***************************************************************************)
\* an error message is kept as one symbol
ErrNoFile == [status |-> 400, key |-> "error", body |-> <<"No file provided">>]
ErrExtract == [status |-> 500, key |-> "error",
               body |-> <<"Failed to extract text from the uploaded file. Make sure it's a .pdf, .docx, or .pptx">>]

\* "if not file": no upload, or an upload whose filename is empty
FileMissing(r) == ~r.hasFile \/ r.filename = <<>>

\* "if not text": None or the empty string
TextMissing(t) == ~t.some \/ t.s = <<>>

\* jsonify({"summary": result}) / jsonify({"qa": result}); an exception that
\* leaves the handler is answered by the framework with status 500
Respond(endpoint, res) ==
    IF res.kind = "raise"
    THEN [status |-> 500, key |-> "exception", body |-> res.value]
    ELSE [status |-> 200, key |-> endpoint, body |-> res.value]

Endings ==
    { ExtPdf, <<".", "P", "D", "F">>, <<".", "P", "d", "f">>,
      ExtDocx, <<".", "D", "O", "C", "X">>,
      ExtPptx, <<".", "P", "p", "T", "x">>,
      <<".", "t", "x", "t">>, <<"p", "d", "f">>, <<".", "p", "d">>, <<>>,
      <<".", "d", "o", "c">>, <<".", "p", "d", "f", "x">> }

FileNames == {s \o e : s \in PieceStrings({<<"a">>, <<".">>}, MaxStem), e \in Endings}

Units == { [hasText |-> TRUE, t |-> <<>>], [hasText |-> TRUE, t |-> <<"a">>],
           [hasText |-> TRUE, t |-> <<"b">>], [hasText |-> FALSE, t |-> <<>>] }

RECURSIVE Docs(_)
Docs(n) ==
    IF n = 0 THEN {<<>>}
    ELSE LET S == Docs(n - 1) IN S \cup {Append(d, u) : d \in S, u \in Units}

\* what the generation service may answer: nothing, or some text
ServiceReplies ==
    { NoResponse, Reply(<<>>), Reply(<<"-", " ", "a", "*", "*", "b">>),
      Reply(QuestionTok \o <<"a", NL>> \o AnswerTok \o <<"b">>) }

Init ==
    /\ pc = "idle"
    /\ req = NoReq /\ text = NoText /\ branch = "none" /\ bytesRead = FALSE
    /\ prompt = NoPrompt /\ response = NoResponse
    /\ formatted = <<>> /\ result = NoResult /\ http = Idle
    /\ steps = <<>> /\ genCalls = 0 /\ seen = {}

\* a POST to /summary or /qa arrives
Request ==
    /\ pc = "idle"
    /\ \E e \in {"summary", "qa"}, f \in BOOLEAN, n \in FileNames,
          d \in Docs(MaxUnits), st \in {"small", "medium", "large"} :
          req' = [endpoint |-> e, hasFile |-> f, filename |-> IF f THEN n ELSE <<>>,
                  doc |-> IF f THEN d ELSE <<>>, summary_type |-> st]
    /\ pc' = "handler"
    /\ UNCHANGED <<text, branch, bytesRead, prompt, response, formatted, result,
                   http, steps, genCalls, seen>>

\* "if not file: return ... 400"
MissingFile ==
    /\ pc = "handler"
    /\ FileMissing(req)
    /\ http' = ErrNoFile
    /\ pc' = "done"
    /\ UNCHANGED <<req, text, branch, bytesRead, prompt, response, formatted,
                   result, steps, genCalls, seen>>

\* text = extract_text(file)
Extract ==
    /\ pc = "handler"
    /\ ~FileMissing(req)
    /\ LET x == extract_text(req.filename, req.doc)
       IN /\ text' = [some |-> x.some, s |-> x.s]
          /\ branch' = x.branch
          /\ bytesRead' = x.read
    /\ steps' = Append(steps, "extract")
    /\ pc' = "extracted"
    /\ UNCHANGED <<req, prompt, response, formatted, result, http, genCalls, seen>>

\* the "if not text" test left out
MayGenerate_Always(t) == TRUE

\* whether the handler goes on to generate_summary / generate_qa
MayGenerate(t) == ~TextMissing(t)

\* "if not text: return ... 500"
ExtractFailed ==
    /\ pc = "extracted"
    /\ ~MayGenerate(text)
    /\ http' = ErrExtract
    /\ pc' = "done"
    /\ UNCHANGED <<req, text, branch, bytesRead, prompt, response, formatted,
                   result, steps, genCalls, seen>>

\* generate_summary / generate_qa up to the answer of the service: the prompt
\* is built and model.generate_content(prompt) is called once
CallService ==
    /\ pc = "extracted"
    /\ MayGenerate(text)
    /\ prompt' = BuildPrompt(req.endpoint, req.summary_type, text.s)
    /\ genCalls' = genCalls + 1
    /\ \E r \in ServiceReplies : response' = r
    /\ steps' = steps \o <<"prompt", "generate">>
    /\ pc' = "replied"
    /\ UNCHANGED <<req, text, branch, bytesRead, formatted, result, http, seen>>

\* the rest of generate_summary / generate_qa and the handler's return
FormatReply ==
    /\ pc = "replied"
    /\ result' = IF req.endpoint = "summary" THEN generate_summary(response)
                 ELSE generate_qa(response)
    /\ formatted' = result'.lines
    /\ http' = Respond(req.endpoint, result')
    /\ steps' = IF result'.kind = "return" THEN Append(steps, "format") ELSE steps
    /\ pc' = "done"
    /\ UNCHANGED <<req, text, branch, bytesRead, prompt, response, genCalls, seen>>

\* why a request failed at extraction, for the log of answers
Cause == IF branch = "none" THEN "unsupported" ELSE "empty"

\* the request is over: nothing of it is retained.  seen logs, per cause, the
\* answers given to requests whose extraction yielded nothing.
Finish ==
    /\ pc = "done"
    /\ seen' = IF ~FileMissing(req) /\ TextMissing(text)
               THEN seen \cup {[cause |-> Cause, http |-> http]} ELSE seen
    /\ pc' = "idle"
    /\ req' = NoReq /\ text' = NoText /\ branch' = "none" /\ bytesRead' = FALSE
    /\ prompt' = NoPrompt /\ response' = NoResponse
    /\ formatted' = <<>> /\ result' = NoResult /\ http' = Idle
    /\ steps' = <<>> /\ genCalls' = 0

Next ==
    \/ Request
    \/ MissingFile
    \/ Extract
    \/ ExtractFailed
    \/ CallService
    \/ FormatReply
    \/ Finish

Spec == Init /\ [][Next]_vars

(***************************************************************************)
(* Properties.                                                             *)
(***************************************************************************)
\* the lines of the reply as the formatters see them: text.strip().split("\n")
RawLines == Split(Strip(response.text), <<NL>>)

IsBlank(l) == \A i \in 1..Len(l) : l[i] \in Whitespace

NonBlankLines == SelectSeq(RawLines, LAMBDA l : ~IsBlank(l))

Contains(s, sub) == \E i \in 1..Len(s) : StartsWith(Drop(s, i - 1), sub)

ConcatRange(f, n) == Concat([k \in 1..n |-> f[k]])

\* C1: when the generation service returns no reply, generate_summary and
\* generate_qa both return their fixed failure string and neither raises.
C1_AbsentReplyYieldsFailureString ==
    (pc = "done" /\ genCalls = 1 /\ ~response.present) =>
        /\ result.kind = "return"
        /\ result.value = (IF req.endpoint = "summary" THEN SummaryFailed
                           ELSE ResponseFailed)
        /\ http.status = 200

\* C4: the summary output holds no '*' and no bullet glyph taken over from
\* the reply, and no bullet's content begins with '-': the only marker of an
\* output line is the "u2022 " the formatter prepends.
C4_NoSourceMarkers ==
    pc = "done" =>
        \A i \in 1..Len(formatted) :
            LET body == Drop(formatted[i], Len(BulletPrefix))
            IN /\ StartsWith(formatted[i], BulletPrefix)
               /\ \A k \in 1..Len(body) : body[k] \notin {"*", BULLET}
               /\ ~(body # <<>> /\ body[1] = "-")

\* the 1-based k-th segment has the 0-based index k - 1
ParityRendered(parts) ==
    ConcatRange([k \in 1..Len(parts) |->
                    IF k % 2 = 0 THEN StrongOpen \o parts[k] \o StrongClose
                    ELSE parts[k]], Len(parts))

ExampleLine == <<"a", " ", "*", "*", "b", "*", "*", " ", "c">>
ExampleRendered == <<"a", " ">> \o StrongOpen \o <<"b">> \o StrongClose \o <<" ", "c">>

\* C5: the segments of a line split on "**" are rendered in their order, the
\* odd-indexed ones inside <strong>...</strong> and the even-indexed ones as
\* they are, for any number of markers (an odd number too), without an
\* error; 'a **b** c' gives 'a <strong>b</strong> c'.
C5_EmphasisParity ==
    pc = "done" =>
        /\ result.kind = "return"
        /\ Len(formatted) = Len(NonBlankLines)
        /\ \A i \in 1..Len(NonBlankLines) :
              LET content == BulletContent(Strip(NonBlankLines[i]))
                  parts == Split(content, EmphasisMarker)
              IN /\ JoinWith(EmphasisMarker, parts) = content
                 /\ \A k \in 1..Len(parts) : ~Contains(parts[k], EmphasisMarker)
                 /\ formatted[i] = BulletPrefix \o ParityRendered(parts) \o BrBr
        /\ (response.text = ExampleLine =>
              result.value = BulletPrefix \o ExampleRendered \o BrBr)

\* a reply with three markers (the last one unterminated) has been formatted
C5_Witness ==
    /\ pc = "done"
    /\ response.text = <<"a", "*", "*", "b", "*", "*", "c", "*", "*", "d">>
    /\ result.value = BulletPrefix \o <<"a">> \o StrongOpen \o <<"b">> \o StrongClose
                      \o <<"c">> \o StrongOpen \o <<"d">> \o StrongClose \o BrBr

\* the lines of the reply as written
InputLines == Split(response.text, <<NL>>)

\* every line is one bullet glyph followed by its content, with no "**"
Normalized ==
    \A i \in 1..Len(InputLines) :
        LET l == InputLines[i]
        IN /\ l # <<>> /\ l[1] \in BulletGlyphs
           /\ (Len(l) >= 2 => l[2] \notin BulletGlyphs)
           /\ ~Contains(l, EmphasisMarker)

InputContent(l) == Strip(Tail(l))

\* C9: on a reply whose every line starts with a single bullet glyph and
\* holds no "**", the summary formatter gives one bullet per line, in order,
\* with the content of that line after exactly one prepended glyph.
C9_IdempotentOnNormalized ==
    (pc = "done" /\ Normalized) =>
        /\ Len(formatted) = Len(InputLines)
        /\ \A i \in 1..Len(InputLines) :
              formatted[i] = BulletPrefix \o InputContent(InputLines[i]) \o BrBr
        /\ result.value = Concat(formatted)

\* the three-bullet normalized reply has been formatted
C9_Witness ==
    /\ pc = "done" /\ Normalized
    /\ response.text = <<BULLET, " ", "a", NL, BULLET, " ", "b", NL, BULLET, " ", "c">>
    /\ Len(formatted) = 3

\* C10: the summary holds exactly one bullet per line of the reply that is
\* not blank after trimming, in input order; a blank line gives no output.
C10_OneBulletPerNonBlankLine ==
    pc = "done" =>
        /\ Len(formatted) = Len(NonBlankLines)
        /\ \A i \in 1..Len(formatted) :
              /\ i <= Len(NonBlankLines)
              /\ formatted[i] = FormatSummaryLine(Strip(NonBlankLines[i]))
              /\ StartsWith(formatted[i], BulletPrefix)
              /\ EndsWith(formatted[i], BrBr)
        /\ result.value = Concat(formatted)

\* a reply with a blank line between two lines has been formatted
C10_Witness ==
    /\ pc = "done"
    /\ response.text = <<"a", NL, NL, "a">>
    /\ Len(formatted) = 2

\* the trimmed lines the Q/A loop works on
QALines == [i \in 1..Len(RawLines) |-> Strip(RawLines[i])]

IsQuestion(l) == StartsWith(l, QuestionTok)

IsAnswer(l) == StartsWith(l, AnswerTok)

\* the positions of the "Question:" lines of L
QuestionIdx(L) == {i \in 1..Len(L) : IsQuestion(L[i])}

\* the position of the k-th "Question:" line
NthQuestion(Q, k) == CHOOSE i \in Q : Cardinality({j \in Q : j <= i}) = k

\* the last line before the (k+1)-th "Question:" line, or the last line
BlockEnd(L, Q, k) ==
    IF k = Cardinality(Q) THEN Len(L) ELSE NthQuestion(Q, k + 1) - 1

Rendered(l) ==
    IF IsQuestion(l) \/ IsAnswer(l) THEN Br \o StrongOpen \o l \o StrongClose ELSE l

\* the rendering of the lines a..b of L, one after the other
RenderedRange(L, a, b) ==
    ConcatRange([j \in 1..(b - a + 1) |-> Rendered(L[a + j - 1])], b - a + 1)

\* C2: for a reply whose first line starts with "Question:", the Q/A output
\* is one closed block per "Question:" line, in input order; a block starts
\* with its question line, holds exactly the lines up to the next
\* "Question:" line and ends with the block separator.
C2_OneBlockPerQuestion ==
    pc = "done" =>
        LET L == QALines
            Q == QuestionIdx(L)
        IN IsQuestion(L[1]) =>
            /\ Len(formatted) = Cardinality(Q)
            /\ \A k \in 1..Len(formatted) :
                  /\ k <= Cardinality(Q)
                  /\ StartsWith(formatted[k], Rendered(L[NthQuestion(Q, k)]))
                  /\ formatted[k] =
                        RenderedRange(L, NthQuestion(Q, k), BlockEnd(L, Q, k)) \o BrBr
            /\ result.value = Concat(formatted)

\* two question/answer pairs have been formatted into two blocks
C2_Witness ==
    /\ pc = "done"
    /\ response.text = QuestionTok \o <<"a", NL>> \o AnswerTok \o <<"a", NL>>
                       \o QuestionTok \o <<"a", NL>> \o AnswerTok \o <<"a">>
    /\ Len(formatted) = 2

WithoutSeparator(b) == SubSeq(b, 1, Len(b) - Len(BrBr))

\* C3: the block open when the lines are exhausted is closed and emitted: a
\* reply ending with a "Question:" line has that question as its last
\* block, and no line put into a block is missing from the output.
C3_LastBlockEmitted ==
    pc = "done" =>
        LET L == QALines
        IN /\ formatted # <<>>
           /\ \A k \in 1..Len(formatted) : EndsWith(formatted[k], BrBr)
           /\ ConcatRange([k \in 1..Len(formatted) |-> WithoutSeparator(formatted[k])],
                          Len(formatted))
                = RenderedRange(L, 1, Len(L))
           /\ (IsQuestion(L[Len(L)]) =>
                 formatted[Len(formatted)] = Rendered(L[Len(L)]) \o BrBr)
           /\ result.value = Concat(formatted)

\* a reply ending with an unanswered question has been formatted
C3_Witness ==
    /\ pc = "done"
    /\ response.text = QuestionTok \o <<"a", NL>> \o AnswerTok \o <<"a", NL>>
                       \o QuestionTok \o <<"a">>
    /\ Len(formatted) = 2
    /\ formatted[2] = Br \o StrongOpen \o QuestionTok \o <<"a">> \o StrongClose \o BrBr

\* C6: a valid pdf/docx/pptx document with no extractable text is answered
\* differently from a file of an unrecognized extension.
C6_EmptyDistinctFromUnsupported ==
    \A a \in seen, b \in seen :
        (a.cause = "empty" /\ b.cause = "unsupported") => a.http # b.http

SameLetter(c, d) ==
    \/ c = d
    \/ <<c, d>> \in {<<"P", "p">>, <<"D", "d">>, <<"F", "f">>, <<"O", "o">>,
                     <<"C", "c">>, <<"X", "x">>, <<"T", "t">>}

\* name ends with ext, letter case ignored
EndsWithCI(name, ext) ==
    /\ Len(ext) <= Len(name)
    /\ \A i \in 1..Len(ext) : SameLetter(name[Len(name) - Len(ext) + i], ext[i])

Recognized(name) ==
    EndsWithCI(name, ExtPdf) \/ EndsWithCI(name, ExtDocx) \/ EndsWithCI(name, ExtPptx)

\* C7: a file whose lower-cased name ends in none of .pdf, .docx, .pptx is
\* answered with the unsupported result, no byte of it read and nothing
\* raised; a name with one of these endings, in any letter case, takes the
\* branch of that format.
C7_FormatDetection ==
    (pc \in {"extracted", "replied", "done"} /\ ~FileMissing(req)) =>
        /\ (branch = "pdf") = EndsWithCI(req.filename, ExtPdf)
        /\ (branch = "docx") = EndsWithCI(req.filename, ExtDocx)
        /\ (branch = "pptx") = EndsWithCI(req.filename, ExtPptx)
        /\ Recognized(req.filename) => (bytesRead /\ text.some)
        /\ ~Recognized(req.filename) =>
              /\ branch = "none" /\ ~bytesRead /\ text = NoText
              /\ genCalls = 0
              /\ (pc = "done" => http = ErrExtract)

\* a file named a.txt was turned away with no byte of it read
C7_Witness ==
    /\ pc = "done"
    /\ req.filename = <<"a", ".", "t", "x", "t">>
    /\ branch = "none" /\ ~bytesRead /\ text = NoText
    /\ http = ErrExtract

IsPrefix(s, t) == Len(s) <= Len(t) /\ SubSeq(t, 1, Len(s)) = s

PipelineOrder == <<"extract", "prompt", "generate", "format">>

\* C8: in a request the steps run in the order extract, build prompt,
\* generate, format; the service is called at most once, and not at all for
\* a missing file, an unsupported format or an extraction that gave no text:
\* such a request ends with an error answer and no output.
C8_PipelineOrder ==
    /\ IsPrefix(steps, PipelineOrder)
    /\ genCalls <= 1
    /\ genCalls = Cardinality({i \in 1..Len(steps) : steps[i] = "generate"})
    /\ (genCalls = 1 => (~FileMissing(req) /\ branch # "none" /\ text.s # <<>>
                         /\ prompt.text = text.s))
    /\ (pc = "done" /\ (FileMissing(req) \/ branch = "none" \/ text.s = <<>>)) =>
          /\ genCalls = 0
          /\ http.key = "error"
          /\ result = NoResult /\ formatted = <<>>

\* a request went through all four steps with one call of the service
C8_Witness ==
    /\ pc = "done"
    /\ steps = PipelineOrder
    /\ genCalls = 1
    /\ http.status = 200

====
